---- MODULE Spec2Model ----
(***************************************************************************)
(* gh-upload-image: the upload orchestration of src/index.js (uploadImage  *)
(* and the helpers it calls), modelled as a state machine.                 *)
(*                                                                         *)
(* Text is a sequence of string fragments.  Text that the code parses (a   *)
(* file path, a repository reference, the stdout of the gh process) is     *)
(* written one character per fragment, so that path.extname, the regular   *)
(* expression of parseRepository, String.trim and parseInt are computed    *)
(* character by character.  Text that the code only copies (a token, a     *)
(* URL, a message literal) is a single fragment.  A template literal is    *)
(* the concatenation of its parts.                                         *)
(*                                                                         *)
(* A JavaScript value that may be undefined is a record [t, v]: t is the   *)
(* type tag and v the text of the value.                                   *)
(***************************************************************************)
EXTENDS Integers, Sequences, FiniteSets, TLC

VARIABLES pc, request, local, token, repositoryId, policy,
          policyRequest, storageRequest, calls, inFlight, fileReads,
          result, error,
          input, output, cli, parked

\* the state of the uploadImage call that is running
uploadVars == <<pc, request, local, token, repositoryId, policy,
                policyRequest, storageRequest, calls, inFlight, fileReads,
                result, error>>

\* input, output: the argument and the value of a call of an exported pure
\* function; cli: the state of the command-line process; parked: the state
\* of a second uploadImage call of the same process while the first runs
otherVars == <<input, output, cli, parked>>

vars == <<pc, request, local, token, repositoryId, policy,
          policyRequest, storageRequest, calls, inFlight, fileReads,
          result, error, input, output, cli, parked>>

(***************************************************************************)
(* Bounds of the model.                                                    *)
(***************************************************************************)
\* longest stdout the gh process prints for the repository id
MaxOutLen == 2

(***************************************************************************)
(* JavaScript values.                                                      *)
(***************************************************************************)
Undefined == [t |-> "undefined", v |-> <<>>]
Null == [t |-> "null", v |-> <<>>]
Str(s) == [t |-> "string", v |-> s]
Num(s) == [t |-> "number", v |-> s]

\* ToBoolean: undefined, null and the empty string are falsy
Falsy(x) == x.t \in {"undefined", "null"} \/ (x.t = "string" /\ x.v = <<>>)

\* ToString, as a template literal applies it
JsToString(x) ==
  IF x.t = "undefined" THEN <<"undefined">>
  ELSE IF x.t = "null" THEN <<"null">>
  ELSE x.v

(***************************************************************************)
(* Text helpers.                                                           *)
(***************************************************************************)
Digits == <<"0", "1", "2", "3", "4", "5", "6", "7", "8", "9">>

IsDigit(c) == \E i \in 1..10 : Digits[i] = c

DigitVal(c) == (CHOOSE i \in 1..10 : Digits[i] = c) - 1

WhiteSpace == {" ", "\t", "\n"}

RECURSIVE TrimStart(_)
TrimStart(s) ==
  IF s # <<>> /\ Head(s) \in WhiteSpace THEN TrimStart(Tail(s)) ELSE s

RECURSIVE TrimEnd(_)
TrimEnd(s) ==
  IF s # <<>> /\ s[Len(s)] \in WhiteSpace
  THEN TrimEnd(SubSeq(s, 1, Len(s) - 1))
  ELSE s

\* String.prototype.trim
Trim(s) == TrimEnd(TrimStart(s))

UpperToLower ==
  [c \in {"A", "B", "C", "D", "E", "F", "G", "H", "I", "J", "K", "L", "M",
          "N", "O", "P", "Q", "R", "S", "T", "U", "V", "W", "X", "Y", "Z"} |->
     CASE c = "A" -> "a" [] c = "B" -> "b" [] c = "C" -> "c" [] c = "D" -> "d"
       [] c = "E" -> "e" [] c = "F" -> "f" [] c = "G" -> "g" [] c = "H" -> "h"
       [] c = "I" -> "i" [] c = "J" -> "j" [] c = "K" -> "k" [] c = "L" -> "l"
       [] c = "M" -> "m" [] c = "N" -> "n" [] c = "O" -> "o" [] c = "P" -> "p"
       [] c = "Q" -> "q" [] c = "R" -> "r" [] c = "S" -> "s" [] c = "T" -> "t"
       [] c = "U" -> "u" [] c = "V" -> "v" [] c = "W" -> "w" [] c = "X" -> "x"
       [] c = "Y" -> "y" [] c = "Z" -> "z"]

\* String.prototype.toLowerCase
toLowerCase(s) ==
  [i \in 1..Len(s) |-> IF s[i] \in DOMAIN UpperToLower
                       THEN UpperToLower[s[i]] ELSE s[i]]

\* the positions of character c in s
Positions(s, c) == {i \in 1..Len(s) : s[i] = c}

Max(S) == CHOOSE m \in S : \A k \in S : k <= m

Min(S) == CHOOSE m \in S : \A k \in S : m <= k

\* all sequences over S of length at most n
SeqsUpTo(S, n) == UNION {[1..k -> S] : k \in 0..n}

\* Number.prototype.toString of a non-negative integer
RECURSIVE NatToText(_)
NatToText(n) ==
  IF n < 10 THEN <<Digits[n + 1]>>
  ELSE NatToText(n \div 10) \o <<Digits[(n % 10) + 1]>>

(***************************************************************************)
(* node:path                                                               *)
(***************************************************************************)
RECURSIVE StripTrailingSlashes(_)
StripTrailingSlashes(p) ==
  IF Len(p) > 1 /\ p[Len(p)] = "/"
  THEN StripTrailingSlashes(SubSeq(p, 1, Len(p) - 1))
  ELSE p

\* path.basename (posix)
basename(p) ==
  LET q == StripTrailingSlashes(p)
      slashes == Positions(q, "/")
  IN  IF slashes = {} THEN q
      ELSE IF q = <<"/">> THEN q
      ELSE SubSeq(q, Max(slashes) + 1, Len(q))

\* path.extname (posix): from the last "." of the base name to its end;
\* empty when there is no ".", or when the only "." starts the base name
extname(p) ==
  LET b == basename(p)
      dots == Positions(b, ".")
  IN  IF dots = {} THEN <<>>
      ELSE IF Max(dots) = 1 THEN <<>>
      ELSE IF b = <<".", ".">> THEN <<>>
      ELSE SubSeq(b, Max(dots), Len(b))

(***************************************************************************)
(* Extension and MIME tables.                                              *)
(***************************************************************************)
ALLOWED_EXTENSIONS ==
  << <<".", "g", "i", "f">>, <<".", "j", "p", "g">>,
     <<".", "j", "p", "e", "g">>, <<".", "p", "n", "g">>,
     <<".", "d", "o", "c", "x">>, <<".", "g", "z">>,
     <<".", "l", "o", "g">>, <<".", "p", "d", "f">>,
     <<".", "p", "p", "t", "x">>, <<".", "t", "x", "t">>,
     <<".", "x", "l", "s", "x">>, <<".", "z", "i", "p">>,
     <<".", "w", "e", "b", "p">>, <<".", "s", "v", "g">>,
     <<".", "m", "p", "4">>, <<".", "m", "o", "v">> >>

\* the MIME_TYPES object as a sequence of <<extension, type>> entries
MIME_TYPES ==
  << << <<".", "g", "i", "f">>, <<"image/gif">> >>,
     << <<".", "j", "p", "g">>, <<"image/jpeg">> >>,
     << <<".", "j", "p", "e", "g">>, <<"image/jpeg">> >>,
     << <<".", "p", "n", "g">>, <<"image/png">> >>,
     << <<".", "w", "e", "b", "p">>, <<"image/webp">> >>,
     << <<".", "s", "v", "g">>, <<"image/svg+xml">> >>,
     << <<".", "p", "d", "f">>, <<"application/pdf">> >>,
     << <<".", "d", "o", "c", "x">>,
        <<"application/vnd.openxmlformats-officedocument.wordprocessingml.document">> >>,
     << <<".", "p", "p", "t", "x">>,
        <<"application/vnd.openxmlformats-officedocument.presentationml.presentation">> >>,
     << <<".", "x", "l", "s", "x">>,
        <<"application/vnd.openxmlformats-officedocument.spreadsheetml.sheet">> >>,
     << <<".", "t", "x", "t">>, <<"text/plain">> >>,
     << <<".", "l", "o", "g">>, <<"text/plain">> >>,
     << <<".", "g", "z">>, <<"application/gzip">> >>,
     << <<".", "z", "i", "p">>, <<"application/zip">> >>,
     << <<".", "m", "p", "4">>, <<"video/mp4">> >>,
     << <<".", "m", "o", "v">>, <<"video/quicktime">> >> >>

getMimeType(filePath) ==
  LET ext == toLowerCase(extname(filePath))
      hits == {i \in 1..Len(MIME_TYPES) : MIME_TYPES[i][1] = ext}
  IN  IF hits = {} THEN <<"application/octet-stream">>
      ELSE MIME_TYPES[Min(hits)][2]

\* the allow-list test without toLowerCase
isExtensionAllowed_CaseSensitive(filePath) ==
  LET ext == extname(filePath)
  IN  \E i \in 1..Len(ALLOWED_EXTENSIONS) : ALLOWED_EXTENSIONS[i] = ext

isExtensionAllowed(filePath) ==
  LET ext == toLowerCase(extname(filePath))
  IN  \E i \in 1..Len(ALLOWED_EXTENSIONS) : ALLOWED_EXTENSIONS[i] = ext

(***************************************************************************)
(* parseRepository                                                         *)
(***************************************************************************)
GITHUB_COM == <<"g", "i", "t", "h", "u", "b", ".", "c", "o", "m">>

\* the end of the longest run of characters outside stop that starts at
\* position from of s (from - 1 when the run is empty)
RECURSIVE RunEnd(_, _, _)
RunEnd(s, from, stop) ==
  IF from <= Len(s) /\ s[from] \notin stop
  THEN RunEnd(s, from + 1, stop)
  ELSE from - 1

\* whether /github\.com[/:]([^/]+)\/([^/.]+)/ matches s starting at i
UrlMatchesAt(s, i) ==
  LET a == i + Len(GITHUB_COM) + 1
      b == RunEnd(s, a, {"/"}) + 1
      e == RunEnd(s, b + 1, {"/", "."})
  IN  /\ i + Len(GITHUB_COM) <= Len(s)
      /\ SubSeq(s, i, i + Len(GITHUB_COM) - 1) = GITHUB_COM
      /\ s[i + Len(GITHUB_COM)] \in {"/", ":"}
      /\ b > a
      /\ b <= Len(s)
      /\ s[b] = "/"
      /\ e >= b + 1

\* the match with a name group that takes dots as well, ([^/]+)
urlMatch_NameWithDots(s) ==
  LET starts == {i \in 1..Len(s) : UrlMatchesAt(s, i)}
  IN  IF starts = {} THEN [matched |-> FALSE, g1 |-> <<>>, g2 |-> <<>>]
      ELSE LET i == Min(starts)
               a == i + Len(GITHUB_COM) + 1
               b == RunEnd(s, a, {"/"}) + 1
               e == RunEnd(s, b + 1, {"/"})
           IN  [matched |-> TRUE,
                g1 |-> SubSeq(s, a, b - 1),
                g2 |-> SubSeq(s, b + 1, e)]

\* String.prototype.match with that expression: the leftmost match and its
\* two capture groups
urlMatch(s) ==
  LET starts == {i \in 1..Len(s) : UrlMatchesAt(s, i)}
  IN  IF starts = {} THEN [matched |-> FALSE, g1 |-> <<>>, g2 |-> <<>>]
      ELSE LET i == Min(starts)
               a == i + Len(GITHUB_COM) + 1
               b == RunEnd(s, a, {"/"}) + 1
               e == RunEnd(s, b + 1, {"/", "."})
           IN  [matched |-> TRUE,
                g1 |-> SubSeq(s, a, b - 1),
                g2 |-> SubSeq(s, b + 1, e)]

\* String.prototype.split("/")
RECURSIVE SplitSlash(_)
SplitSlash(s) ==
  LET slashes == Positions(s, "/")
  IN  IF slashes = {} THEN <<s>>
      ELSE <<SubSeq(s, 1, Min(slashes) - 1)>>
           \o SplitSlash(SubSeq(s, Min(slashes) + 1, Len(s)))

\* ok = FALSE stands for the thrown "Invalid repository format" error
parseRepository(repository) ==
  LET m == urlMatch(repository)
      parts == SplitSlash(repository)
  IN  IF m.matched THEN [ok |-> TRUE, owner |-> m.g1, repo |-> m.g2]
      ELSE IF Len(parts) = 2
           THEN [ok |-> TRUE, owner |-> parts[1], repo |-> parts[2]]
           ELSE [ok |-> FALSE, owner |-> <<>>, repo |-> <<>>]

(***************************************************************************)
(* parseInt(text, 10) and Number.prototype.toString                        *)
(***************************************************************************)
NaN == [nan |-> TRUE, n |-> 0]

RECURSIVE DigitsValue(_, _)
DigitsValue(s, acc) ==
  IF s = <<>> THEN acc
  ELSE DigitsValue(Tail(s), acc * 10 + DigitVal(Head(s)))

parseInt(text) ==
  LET s == TrimStart(text)
      signed == s # <<>> /\ Head(s) \in {"+", "-"}
      body == IF signed THEN Tail(s) ELSE s
      e == RunEnd(body, 1, {c \in {body[i] : i \in 1..Len(body)} :
                              ~IsDigit(c)})
      value == DigitsValue(SubSeq(body, 1, e), 0)
  IN  IF e = 0 THEN NaN
      ELSE [nan |-> FALSE,
            n |-> IF signed /\ Head(s) = "-" THEN 0 - value ELSE value]

NumberToString(x) ==
  IF x.nan THEN <<"NaN">>
  ELSE IF x.n < 0 THEN <<"-">> \o NatToText(0 - x.n)
  ELSE NatToText(x.n)

(***************************************************************************)
(* The environment: the local file system, the gh process and the two HTTP *)
(* endpoints.                                                              *)
(***************************************************************************)
\* stat of a path: the files and directories of the working directory
Stat(p) ==
  CASE p = <<"a", ".", "p", "n", "g">> -> [kind |-> "file", size |-> 10]
    [] p = <<"B", ".", "J", "P", "G">> -> [kind |-> "file", size |-> 3]
    [] p = <<"d", "/", "c", ".", "g", "z">> -> [kind |-> "file", size |-> 0]
    [] p = <<"x", ".", "j", "s">> -> [kind |-> "file", size |-> 5]
    [] p = <<".", "p", "n", "g">> -> [kind |-> "file", size |-> 10]
    [] p = <<"d">> -> [kind |-> "dir", size |-> 0]
    [] OTHER -> [kind |-> "none", size |-> 0]

\* the filePath option of a request
FilePaths ==
  {Undefined, Str(<<>>),
   Str(<<"a", ".", "p", "n", "g">>), Str(<<"B", ".", "J", "P", "G">>),
   Str(<<"d", "/", "c", ".", "g", "z">>), Str(<<"x", ".", "j", "s">>),
   Str(<<".", "p", "n", "g">>), Str(<<"d">>),
   Str(<<"n", ".", "p", "n", "g">>), Str(<<"n", ".", "e", "x", "e">>)}

\* the repository option of a request
Repositories ==
  {Undefined, Str(<<>>),
   Str(<<"o", "/", "r">>),
   Str(<<"h", "t", "t", "p", "s", ":", "/", "/"
         >> \o GITHUB_COM \o <<"/", "o", "/", "r", ".", "g", "i", "t">>),
   Str(<<"g", "i", "t", "@">> \o GITHUB_COM
       \o <<":", "o", "/", "r", ".", "g", "i", "t">>),
   Str(<<"i", "n", "v", "a", "l", "i", "d">>),
   Str(<<"a", "/", "b", "/", "c">>),
   Str(<<"/", "r">>)}

\* how a spawned gh process ends: the close event with an exit code, or the
\* error event when the process cannot be spawned
ExecOutcome(event, code, stdout, stderr, message) ==
  [event |-> event, code |-> code, stdout |-> stdout, stderr |-> stderr,
   message |-> message]

SpawnError == ExecOutcome("error", 0, <<>>, <<>>, <<"spawn gh ENOENT">>)

TokenOutcomes ==
  {ExecOutcome("close", 0, <<"gho_A", "\n">>, <<>>, <<>>),
   ExecOutcome("close", 0, <<"gho_B", "\n">>, <<>>, <<>>),
   ExecOutcome("close", 1, <<>>, <<"not logged in", "\n">>, <<>>),
   ExecOutcome("close", 1, <<>>, <<>>, <<>>),
   SpawnError}

\* the characters gh api --jq .id may print
OutChars == {"7", "x", " "}

ResolverOutcomes ==
  {ExecOutcome("close", 0, out, <<>>, <<>>) : out \in SeqsUpTo(OutChars, MaxOutLen)}
  \cup {ExecOutcome("close", 1, <<>>, <<"HTTP 404", "\n">>, <<>>), SpawnError}

StatusCodes == {200, 201, 204, 299, 300, 404, 500}

StatusTexts == {<<>>, <<"Status">>}

\* the JSON bodies the policy endpoint answers with: the text of the body
\* and, when it parses, the upload_url, form and asset?.id of the object;
\* a form is the sequence of its <<key, value>> members in the order of the
\* JSON text, a key written one character per fragment
PolicyJson(valid, upload_url, form, asset_id) ==
  [valid |-> valid, upload_url |-> upload_url, form |-> form,
   asset_id |-> asset_id]

Form(entries) == [t |-> "object", v |-> entries]

PolicyBodies ==
  {[text |-> <<"{upload_url,form:{k:v},asset:{id:abc123}}">>,
    json |-> PolicyJson(TRUE, Str(<<"https://store/x">>),
                        Form(<< << <<"k">>, <<"v">> >> >>), Str(<<"abc123">>))],
   [text |-> <<"{upload_url,form:{b:1,10:x,9:y,a:2},asset:{id:7}}">>,
    json |-> PolicyJson(TRUE, Str(<<"https://store/y">>),
                        Form(<< << <<"b">>, <<"1">> >>,
                                << <<"1", "0">>, <<"x">> >>,
                                << <<"9">>, <<"y">> >>,
                                << <<"a">>, <<"2">> >> >>),
                        Num(<<"7">>))],
   [text |-> <<"{upload_url,form:{k:v}}">>,
    json |-> PolicyJson(TRUE, Str(<<"https://store/x">>),
                        Form(<< << <<"k">>, <<"v">> >> >>), Undefined)],
   [text |-> <<"{form:{k:v},asset:{id:abc123}}">>,
    json |-> PolicyJson(TRUE, Undefined,
                        Form(<< << <<"k">>, <<"v">> >> >>), Str(<<"abc123">>))],
   [text |-> <<"{message:Bad}">>,
    json |-> PolicyJson(TRUE, Undefined, Undefined, Undefined)],
   [text |-> <<"<html>">>,
    json |-> PolicyJson(FALSE, Undefined, Undefined, Undefined)]}

PolicyResponses ==
  [status : StatusCodes, statusText : StatusTexts, body : PolicyBodies]

StorageBodies == {<<>>, <<"<Error>AccessDenied</Error>">>}

StorageResponses ==
  [status : StatusCodes, statusText : StatusTexts, text : StorageBodies]

\* Response.ok
ResponseOk(status) == status >= 200 /\ status <= 299

(***************************************************************************)
(* The helpers of uploadImage.                                             *)
(***************************************************************************)
fileExists(filePath) == Stat(filePath).kind = "file"

getFileSize(filePath) == Stat(filePath).size

\* Array.prototype.join
RECURSIVE Join(_, _)
Join(texts, sep) ==
  IF texts = <<>> THEN <<>>
  ELSE IF Len(texts) = 1 THEN texts[1]
  ELSE texts[1] \o sep \o Join(Tail(texts), sep)

\* a thrown Error: kind names the throw statement, step the step of
\* uploadImage that was running
Thrown(kind, step, message) ==
  [kind |-> kind, step |-> step, message |-> message]

\* validateUploadInput without the fileExists check
validateUploadInput_NoExistsCheck(filePath, repository) ==
  IF Falsy(filePath)
  THEN <<Thrown("MissingArgument", "validate",
                <<"filePath is required in options">>)>>
  ELSE IF Falsy(repository)
  THEN <<Thrown("MissingArgument", "validate",
                <<"repository is required in options">>)>>
  ELSE IF ~isExtensionAllowed(filePath.v)
  THEN <<Thrown("UnsupportedExtension", "validate",
                <<"File extension \"">> \o toLowerCase(extname(filePath.v))
                \o <<"\" is not allowed. Allowed extensions: ">>
                \o Join(ALLOWED_EXTENSIONS, <<", ">>))>>
  ELSE <<>>

\* validateUploadInput: the error it throws, or <<>> when it returns
\* validateUploadInput with the extension test before the fileExists test
validateUploadInput_ExtensionFirst(filePath, repository) ==
  IF Falsy(filePath)
  THEN <<Thrown("MissingArgument", "validate",
                <<"filePath is required in options">>)>>
  ELSE IF Falsy(repository)
  THEN <<Thrown("MissingArgument", "validate",
                <<"repository is required in options">>)>>
  ELSE IF ~isExtensionAllowed(filePath.v)
  THEN <<Thrown("UnsupportedExtension", "validate",
                <<"File extension \"">> \o toLowerCase(extname(filePath.v))
                \o <<"\" is not allowed. Allowed extensions: ">>
                \o Join(ALLOWED_EXTENSIONS, <<", ">>))>>
  ELSE IF ~fileExists(filePath.v)
  THEN <<Thrown("FileNotFound", "validate",
                <<"File does not exist: ">> \o filePath.v)>>
  ELSE <<>>

validateUploadInput(filePath, repository) ==
  IF Falsy(filePath)
  THEN <<Thrown("MissingArgument", "validate",
                <<"filePath is required in options">>)>>
  ELSE IF Falsy(repository)
  THEN <<Thrown("MissingArgument", "validate",
                <<"repository is required in options">>)>>
  ELSE IF ~fileExists(filePath.v)
  THEN <<Thrown("FileNotFound", "validate",
                <<"File does not exist: ">> \o filePath.v)>>
  ELSE IF ~isExtensionAllowed(filePath.v)
  THEN <<Thrown("UnsupportedExtension", "validate",
                <<"File extension \"">> \o toLowerCase(extname(filePath.v))
                \o <<"\" is not allowed. Allowed extensions: ">>
                \o Join(ALLOWED_EXTENSIONS, <<", ">>))>>
  ELSE <<>>

\* execCommand: how the promise settles for an outcome of the process
execCommand(outcome) ==
  IF outcome.event = "error"
  THEN [ok |-> FALSE, value |-> outcome.message]
  ELSE IF outcome.code = 0
  THEN [ok |-> TRUE, value |-> Trim(outcome.stdout)]
  ELSE [ok |-> FALSE,
        value |-> IF Trim(outcome.stderr) # <<>> THEN Trim(outcome.stderr)
                  ELSE <<"Command failed with exit code ">>
                       \o NatToText(outcome.code)]

\* getGitHubToken: the token, or the error thrown in its catch clause
getGitHubToken(outcome) ==
  LET r == execCommand(outcome)
  IN  IF r.ok THEN [ok |-> TRUE, token |-> r.value, thrown |-> <<>>]
      ELSE [ok |-> FALSE, token |-> <<>>,
            thrown |-> <<Thrown("AuthenticationFailed", "token",
              <<"Failed to get GitHub token. Make sure you are logged in with \"gh auth login\". ">>
              \o r.value)>>]

\* getRepositoryId: parseInt of the output, or the error thrown in its
\* catch clause
getRepositoryId(owner, repo, outcome) ==
  LET r == execCommand(outcome)
  IN  IF r.ok THEN [ok |-> TRUE, id |-> parseInt(r.value), thrown |-> <<>>]
      ELSE [ok |-> FALSE, id |-> NaN,
            thrown |-> <<Thrown("RepositoryResolutionFailed", "resolver",
              <<"Failed to get repository ID for ">> \o owner \o <<"/">>
              \o repo
              \o <<". Make sure the repository exists and you have access. ">>
              \o r.value)>>]

POLICY_URL == <<"https://github.com/upload/policies/assets">>

ASSET_URL_PREFIX == <<"https://github.com/user-attachments/assets/">>

\* the request requestUploadPolicy sends
PolicyRequestOf(tok, id, fileName, fileSize, mimeType) ==
  [url |-> POLICY_URL,
   authorization |-> <<"token ">> \o tok,
   name |-> fileName,
   size |-> NatToText(fileSize),
   content_type |-> mimeType,
   repository_id |-> NumberToString(id)]

NoPolicyRequest ==
  [url |-> <<>>, authorization |-> <<>>, name |-> <<>>, size |-> <<>>,
   content_type |-> <<>>, repository_id |-> <<>>]

\* requestUploadPolicy that takes every status below 400 for a success
requestUploadPolicy_Below400(response) ==
  IF response.status >= 400
  THEN [ok |-> FALSE, policy |-> response.body.json,
        thrown |-> <<Thrown("PolicyRequestFailed", "policy",
          <<"Failed to get upload policy: ">> \o NatToText(response.status)
          \o <<" ">> \o response.statusText \o <<". ">>
          \o response.body.text)>>]
  ELSE IF ~response.body.json.valid
  THEN [ok |-> FALSE, policy |-> response.body.json,
        thrown |-> <<Thrown("SyntaxError", "policy",
                            <<"Unexpected token in JSON">>)>>]
  ELSE [ok |-> TRUE, policy |-> response.body.json, thrown |-> <<>>]

\* requestUploadPolicy after the response arrived: the parsed policy, or
\* the error thrown
requestUploadPolicy(response) ==
  IF ~ResponseOk(response.status)
  THEN [ok |-> FALSE, policy |-> response.body.json,
        thrown |-> <<Thrown("PolicyRequestFailed", "policy",
          <<"Failed to get upload policy: ">> \o NatToText(response.status)
          \o <<" ">> \o response.statusText \o <<". ">>
          \o response.body.text)>>]
  ELSE IF ~response.body.json.valid
  THEN [ok |-> FALSE, policy |-> response.body.json,
        thrown |-> <<Thrown("SyntaxError", "policy",
                            <<"Unexpected token in JSON">>)>>]
  ELSE [ok |-> TRUE, policy |-> response.body.json, thrown |-> <<>>]

\* a key that is an array index: a canonical non-negative integer
IsArrayIndex(key) ==
  /\ key # <<>>
  /\ \A i \in 1..Len(key) : IsDigit(key[i])
  /\ (Len(key) = 1 \/ key[1] # "0")

\* the members at the positions idx of entries, by ascending numeric key
RECURSIVE AscendingIndexKeys(_, _)
AscendingIndexKeys(entries, idx) ==
  IF idx = {} THEN <<>>
  ELSE LET i == CHOOSE j \in idx :
                  \A k \in idx : DigitsValue(entries[j][1], 0)
                                   <= DigitsValue(entries[k][1], 0)
       IN  <<entries[i]>> \o AscendingIndexKeys(entries, idx \ {i})

\* the members of entries whose key is not an array index, in their order
RECURSIVE StringKeys(_)
StringKeys(entries) ==
  IF entries = <<>> THEN <<>>
  ELSE IF IsArrayIndex(Head(entries)[1]) THEN StringKeys(Tail(entries))
  ELSE <<Head(entries)>> \o StringKeys(Tail(entries))

\* Object.entries of a parsed JSON object: the array-index keys in
\* ascending order, then the other keys in the order they were created
ObjectEntries(entries) ==
  AscendingIndexKeys(entries,
                     {i \in 1..Len(entries) : IsArrayIndex(entries[i][1])})
  \o StringKeys(entries)

\* FormData.append(key, value) of a string
FieldPart(entry) ==
  [name |-> entry[1], value |-> entry[2], filename |-> <<>>, type |-> <<>>]

\* FormData.append('file', new Blob([fileBuffer], {type}), fileName); the
\* bytes of a file are named by its path
FilePart(filePath, fileName, mimeType) ==
  [name |-> <<"file">>, value |-> filePath, filename |-> fileName,
   type |-> mimeType]

\* a request that also carries the credential
StorageRequestOf_WithToken(pol, filePath, fileName, mimeType) ==
  LET entries == ObjectEntries(pol.form.v)
  IN  [url |-> pol.upload_url.v,
       parts |-> [i \in 1..Len(entries) |-> FieldPart(entries[i])]
                 \o <<FilePart(filePath, fileName, mimeType)>>,
       headers |-> << << <<"Authorization">>, <<"token ">> \o token >> >>]

\* the request uploadFileToStorage sends: the parts of the multipart body
\* are the form entries of the policy and then the file; no header is set
StorageRequestOf(pol, filePath, fileName, mimeType) ==
  LET entries == ObjectEntries(pol.form.v)
  IN  [url |-> pol.upload_url.v,
       parts |-> [i \in 1..Len(entries) |-> FieldPart(entries[i])]
                 \o <<FilePart(filePath, fileName, mimeType)>>,
       headers |-> <<>>]

NoStorageRequest == [url |-> <<>>, parts |-> <<>>, headers |-> <<>>]

\* uploadFileToStorage up to its fetch: Object.entries throws on a missing
\* form, fetch rejects on a missing URL; <<>> when the POST is sent
uploadFileToStorageStart(pol) ==
  IF pol.form.t # "object"
  THEN <<Thrown("TypeError", "storage",
                <<"Cannot convert undefined or null to object">>)>>
  ELSE IF pol.upload_url.t # "string"
  THEN <<Thrown("TypeError", "storage",
                <<"Failed to parse URL from ">> \o JsToString(pol.upload_url))>>
  ELSE <<>>

\* isSuccess that knows only the listed status codes
isSuccess_ListedOnly(status) == status = 200 \/ status = 201 \/ status = 204

\* isSuccess of uploadFileToStorage
isSuccess(status) == ResponseOk(status) \/ status = 201 \/ status = 204

\* uploadFileToStorage after the response arrived: the error thrown, or <<>>
uploadFileToStorage(response) ==
  IF ~isSuccess(response.status)
  THEN <<Thrown("UploadFailed", "storage",
                <<"Failed to upload file: ">> \o NatToText(response.status)
                \o <<" ">> \o response.statusText \o <<". ">>
                \o response.text)>>
  ELSE <<>>

\* the result of the dry-run branch
DryRunResult(l) ==
  [url |-> <<"[DRY MODE] Would upload ">> \o l.fileName \o <<" to ">>
           \o l.owner \o <<"/">> \o l.repo,
   assetId |-> Null,
   fileName |-> l.fileName,
   fileSize |-> l.fileSize,
   mimeType |-> l.mimeType,
   repository |-> l.owner \o <<"/">> \o l.repo,
   dryMode |-> TRUE]

\* a result whose url is made from the file name instead of the asset id
UploadResult_UrlFromFileName(l, pol) ==
  [url |-> ASSET_URL_PREFIX \o l.fileName,
   assetId |-> pol.asset_id,
   fileName |-> l.fileName,
   fileSize |-> l.fileSize,
   mimeType |-> l.mimeType,
   repository |-> l.owner \o <<"/">> \o l.repo,
   dryMode |-> FALSE]

\* the result assembled after the upload
UploadResult(l, pol) ==
  [url |-> ASSET_URL_PREFIX \o JsToString(pol.asset_id),
   assetId |-> pol.asset_id,
   fileName |-> l.fileName,
   fileSize |-> l.fileSize,
   mimeType |-> l.mimeType,
   repository |-> l.owner \o <<"/">> \o l.repo,
   dryMode |-> FALSE]

(***************************************************************************)
(* The state machine of one uploadImage call at a time.                    *)
(*   pc            where the call is: idle, or awaiting token, repoId,     *)
(*                 policy or storage, or settled as done or failed         *)
(*   calls         the external calls issued by this call, in order        *)
(*   inFlight      the external calls issued and not yet settled           *)
(*   fileReads     how often the file was read for upload                  *)
(*   result, error the value returned or the error thrown, <<>> if none    *)
(***************************************************************************)
NoRequest == [filePath |-> Undefined, repository |-> Undefined,
              dryMode |-> FALSE]

NoLocal == [owner |-> <<>>, repo |-> <<>>, fileName |-> <<>>,
            fileSize |-> 0, mimeType |-> <<>>]

NoPolicy == PolicyJson(FALSE, Undefined, Undefined, Undefined)

\* no pure function has been called
NoInput == [fn |-> "none"]

NoOutput == [fn |-> "none"]

\* there is no command-line process
NoCli == [phase |-> "none"]

\* there is no second call
NoParked == [used |-> FALSE]

\* no call of uploadImage has been made
UploadInit ==
  /\ pc = "idle"
  /\ request = NoRequest
  /\ local = NoLocal
  /\ token = <<>>
  /\ repositoryId = NaN
  /\ policy = NoPolicy
  /\ policyRequest = NoPolicyRequest
  /\ storageRequest = NoStorageRequest
  /\ calls = <<>>
  /\ inFlight = {}
  /\ fileReads = 0
  /\ result = <<>>
  /\ error = <<>>

Init ==
  /\ UploadInit
  /\ input = NoInput
  /\ output = NoOutput
  /\ cli = NoCli
  /\ parked = NoParked

\* a thrown error that is recorded but does not reject the call
Fail_Swallowed(thrown) ==
  /\ pc' = "done"
  /\ error' = thrown
  /\ result' = <<>>
  /\ inFlight' = {}

\* the call settles with a thrown error
Fail(thrown) ==
  /\ pc' = "failed"
  /\ error' = thrown
  /\ result' = <<>>
  /\ inFlight' = {}

\* an external call issued while the previous one is still in flight
Await_Overlapping(call) ==
  /\ pc' = call
  /\ calls' = Append(calls, call)
  /\ inFlight' = inFlight \cup {call}
  /\ result' = <<>>
  /\ error' = <<>>

\* an external call is issued and awaited
Await(call) ==
  /\ pc' = call
  /\ calls' = Append(calls, call)
  /\ inFlight' = {call}
  /\ result' = <<>>
  /\ error' = <<>>

\* a dry-run test that never takes the short-circuit
isDryRun_Never(dryMode) == FALSE

\* the test of the dry-run short-circuit
isDryRun(dryMode) == dryMode

\* uploadImage that takes the dry-run branch before it validates
uploadImageStart_DryRunFirst(filePath, repository, dryMode) ==
  LET invalid == validateUploadInput(filePath, repository)
      parsed == parseRepository(repository.v)
      l == [owner |-> parsed.owner, repo |-> parsed.repo,
            fileName |-> basename(filePath.v),
            fileSize |-> getFileSize(filePath.v),
            mimeType |-> getMimeType(filePath.v)]
  IN  /\ pc \in {"idle", "done", "failed"}
      /\ request' = [filePath |-> filePath, repository |-> repository,
                     dryMode |-> dryMode]
      /\ token' = <<>>
      /\ repositoryId' = NaN
      /\ policy' = NoPolicy
      /\ policyRequest' = NoPolicyRequest
      /\ storageRequest' = NoStorageRequest
      /\ fileReads' = 0
      /\ IF isDryRun(dryMode)
         THEN /\ pc' = "done"
              /\ local' = l
              /\ result' = <<DryRunResult(l)>>
              /\ error' = <<>>
              /\ calls' = <<>>
              /\ inFlight' = {}
         ELSE IF invalid # <<>>
         THEN /\ Fail(invalid)
              /\ local' = NoLocal
              /\ calls' = <<>>
         ELSE IF ~parsed.ok
         THEN /\ Fail(<<Thrown("InvalidReference", "parse",
                         <<"Invalid repository format: \"">> \o repository.v
                         \o <<"\". Use \"owner/repo\" format.">>)>>)
              /\ local' = NoLocal
              /\ calls' = <<>>
         ELSE /\ local' = l
              /\ pc' = "token"
              /\ calls' = <<"token">>
              /\ inFlight' = {"token"}
              /\ result' = <<>>
              /\ error' = <<>>

\* uploadImage from its entry to its first await, return or throw
uploadImageStart(filePath, repository, dryMode) ==
  LET invalid == validateUploadInput(filePath, repository)
      parsed == parseRepository(repository.v)
      l == [owner |-> parsed.owner, repo |-> parsed.repo,
            fileName |-> basename(filePath.v),
            fileSize |-> getFileSize(filePath.v),
            mimeType |-> getMimeType(filePath.v)]
  IN  /\ pc \in {"idle", "done", "failed"}
      /\ request' = [filePath |-> filePath, repository |-> repository,
                     dryMode |-> dryMode]
      /\ token' = <<>>
      /\ repositoryId' = NaN
      /\ policy' = NoPolicy
      /\ policyRequest' = NoPolicyRequest
      /\ storageRequest' = NoStorageRequest
      /\ fileReads' = 0
      /\ IF invalid # <<>>
         THEN /\ Fail(invalid)
              /\ local' = NoLocal
              /\ calls' = <<>>
         ELSE IF ~parsed.ok
         THEN /\ Fail(<<Thrown("InvalidReference", "parse",
                         <<"Invalid repository format: \"">> \o repository.v
                         \o <<"\". Use \"owner/repo\" format.">>)>>)
              /\ local' = NoLocal
              /\ calls' = <<>>
         ELSE IF isDryRun(dryMode)
         THEN /\ pc' = "done"
              /\ local' = l
              /\ result' = <<DryRunResult(l)>>
              /\ error' = <<>>
              /\ calls' = <<>>
              /\ inFlight' = {}
         ELSE /\ local' = l
              /\ pc' = "token"
              /\ calls' = <<"token">>
              /\ inFlight' = {"token"}
              /\ result' = <<>>
              /\ error' = <<>>

\* getGitHubToken that keeps the first token of the process in a variable
\* of the module and returns it to every later call
TokenSettles_Cached(outcome) ==
  LET r == getGitHubToken(outcome)
      cached == parked.used /\ parked.token # <<>>
  IN  /\ pc = "token"
      /\ IF r.ok
         THEN /\ token' = IF cached THEN parked.token ELSE r.token
              /\ Await("resolver")
         ELSE /\ Fail(r.thrown)
              /\ UNCHANGED <<token, calls>>
      /\ UNCHANGED <<request, local, repositoryId, policy, policyRequest,
                     storageRequest, fileReads>>

\* the gh auth token process ends; on success gh api is spawned
TokenSettles(outcome) ==
  LET r == getGitHubToken(outcome)
  IN  /\ pc = "token"
      /\ IF r.ok
         THEN /\ token' = r.token
              /\ Await("resolver")
         ELSE /\ Fail(r.thrown)
              /\ UNCHANGED <<token, calls>>
      /\ UNCHANGED <<request, local, repositoryId, policy, policyRequest,
                     storageRequest, fileReads>>

\* the gh api process ends; on success the policy request is sent
ResolverSettles(outcome) ==
  LET r == getRepositoryId(local.owner, local.repo, outcome)
  IN  /\ pc = "resolver"
      /\ IF r.ok
         THEN /\ repositoryId' = r.id
              /\ policyRequest' = PolicyRequestOf(token, r.id, local.fileName,
                                                  local.fileSize, local.mimeType)
              /\ Await("policy")
         ELSE /\ Fail(r.thrown)
              /\ UNCHANGED <<repositoryId, policyRequest, calls>>
      /\ UNCHANGED <<request, local, token, policy, storageRequest, fileReads>>

\* the policy endpoint answers; on success the file is read and the
\* storage POST is sent
PolicySettles(response) ==
  LET r == requestUploadPolicy(response)
      started == uploadFileToStorageStart(r.policy)
  IN  /\ pc = "policy"
      /\ IF ~r.ok
         THEN /\ Fail(r.thrown)
              /\ UNCHANGED <<policy, storageRequest, fileReads, calls>>
         ELSE /\ policy' = r.policy
              /\ fileReads' = fileReads + 1
              /\ IF started # <<>>
                 THEN /\ Fail(started)
                      /\ UNCHANGED <<storageRequest, calls>>
                 ELSE /\ storageRequest' =
                           StorageRequestOf(r.policy, request.filePath.v,
                                            local.fileName, local.mimeType)
                      /\ Await("storage")
      /\ UNCHANGED <<request, local, token, repositoryId, policyRequest>>

\* fetch of the policy endpoint rejects (no response)
PolicyRejects ==
  /\ pc = "policy"
  /\ Fail(<<Thrown("FetchError", "policy", <<"fetch failed">>)>>)
  /\ UNCHANGED <<request, local, token, repositoryId, policy, policyRequest,
                 storageRequest, calls, fileReads>>

\* the storage endpoint answers; on success the result is returned
StorageSettles(response) ==
  LET thrown == uploadFileToStorage(response)
  IN  /\ pc = "storage"
      /\ IF thrown # <<>>
         THEN Fail(thrown)
         ELSE /\ pc' = "done"
              /\ result' = <<UploadResult(local, policy)>>
              /\ error' = <<>>
              /\ inFlight' = {}
      /\ UNCHANGED <<request, local, token, repositoryId, policy,
                     policyRequest, storageRequest, calls, fileReads>>

\* fetch of the storage endpoint rejects (no response)
StorageRejects ==
  /\ pc = "storage"
  /\ Fail(<<Thrown("FetchError", "storage", <<"fetch failed">>)>>)
  /\ UNCHANGED <<request, local, token, repositoryId, policy, policyRequest,
                 storageRequest, calls, fileReads>>

\* one uploadImage call at a time, called by a library user
Next ==
  \/ \E f \in FilePaths, r \in Repositories, d \in BOOLEAN :
       uploadImageStart(f, r, d) /\ UNCHANGED otherVars
  \/ \E o \in TokenOutcomes : TokenSettles(o) /\ UNCHANGED otherVars
  \/ \E o \in ResolverOutcomes : ResolverSettles(o) /\ UNCHANGED otherVars
  \/ \E resp \in PolicyResponses : PolicySettles(resp) /\ UNCHANGED otherVars
  \/ PolicyRejects /\ UNCHANGED otherVars
  \/ \E resp \in StorageResponses :
       StorageSettles(resp) /\ UNCHANGED otherVars
  \/ StorageRejects /\ UNCHANGED otherVars

Spec == Init /\ [][Next]_vars

TypeOK ==
  /\ pc \in {"idle", "token", "resolver", "policy", "storage", "done", "failed"}
  /\ Len(result) <= 1
  /\ Len(error) <= 1
  /\ inFlight \subseteq {"token", "resolver", "policy", "storage"}

(***************************************************************************)
(* Vocabulary of the properties.                                           *)
(***************************************************************************)
\* sub occurs in text as a contiguous run of fragments
Contains(text, sub) ==
  \E i \in 1..(Len(text) - Len(sub) + 1) :
    SubSeq(text, i, i + Len(sub) - 1) = sub

IsPrefix(s, t) == Len(s) <= Len(t) /\ SubSeq(t, 1, Len(s)) = s

\* the external calls in the order the orchestration issues them
CallOrder == <<"token", "resolver", "policy", "storage">>

LocalErrorKinds ==
  {"MissingArgument", "FileNotFound", "UnsupportedExtension",
   "InvalidReference"}

RemoteErrorKinds ==
  {"AuthenticationFailed", "RepositoryResolutionFailed",
   "PolicyRequestFailed", "UploadFailed"}

\* the calls that have been issued when the given step is the one running
CallsAtStep(step) ==
  CASE step \in {"validate", "parse"} -> {<<>>}
    [] step = "token" -> {SubSeq(CallOrder, 1, 1)}
    [] step = "resolver" -> {SubSeq(CallOrder, 1, 2)}
    [] step = "policy" -> {SubSeq(CallOrder, 1, 3)}
    [] step = "storage" -> {SubSeq(CallOrder, 1, 3), CallOrder}

\* C1: a dry-run request never issues an external call and never reads the
\* file for upload; it ends at once, either with a local error or, when
\* validation and parsing pass, with a result that has dryMode = TRUE, no
\* asset id, a placeholder url naming the file and owner/repo, and the size
\* and MIME type of the local file.
C1_DryRunIsLocal ==
  request.dryMode =>
    /\ calls = <<>>
    /\ inFlight = {}
    /\ fileReads = 0
    /\ policyRequest = NoPolicyRequest
    /\ storageRequest = NoStorageRequest
    /\ pc \in {"done", "failed"}
    /\ \A i \in 1..Len(error) :
         /\ error[i].kind \in LocalErrorKinds
         /\ error[i].kind \notin RemoteErrorKinds
    /\ error = <<>> =>
         /\ Len(result) = 1
         /\ result[1].dryMode = TRUE
         /\ result[1].assetId = Null
         /\ Contains(result[1].url, basename(request.filePath.v))
         /\ Contains(result[1].url,
                     local.owner \o <<"/">> \o local.repo)
         /\ Contains(result[1].url, <<"[DRY MODE] Would upload ">>)
         /\ result[1].fileSize = Stat(request.filePath.v).size
         /\ result[1].mimeType = getMimeType(request.filePath.v)

C1_Witness ==
  /\ request.dryMode
  /\ pc = "done"
  /\ Len(result) = 1
  /\ result[1].fileSize = 10
  /\ result[1].mimeType = <<"image/png">>
  /\ result[1].repository = <<"o", "/", "r">>

\* C2: when the call has failed with a local error no external call has
\* been issued; an external call is issued only for a request that passes
\* validation and repository parsing; a request whose file does not exist
\* fails with FileNotFound without any external call.
C2_LocalErrorsBeforeCalls ==
  /\ \A i \in 1..Len(error) :
       error[i].kind \in LocalErrorKinds =>
         /\ calls = <<>>
         /\ inFlight = {}
         /\ fileReads = 0
  /\ calls # <<>> =>
       /\ ~Falsy(request.filePath)
       /\ ~Falsy(request.repository)
       /\ Stat(request.filePath.v).kind = "file"
       /\ isExtensionAllowed(request.filePath.v)
       /\ parseRepository(request.repository.v).ok
  /\ ( /\ pc # "idle"
       /\ ~Falsy(request.filePath)
       /\ ~Falsy(request.repository)
       /\ Stat(request.filePath.v).kind # "file" ) =>
       /\ pc = "failed"
       /\ Len(error) = 1
       /\ error[1].kind = "FileNotFound"
       /\ calls = <<>>

C2_Witness ==
  /\ pc = "failed"
  /\ ~request.dryMode
  /\ request.filePath = Str(<<"n", ".", "p", "n", "g">>)
  /\ Len(error) = 1
  /\ error[1].kind = "FileNotFound"

\* C3: the external calls are issued in the order token, resolver, policy,
\* storage, each at most once; at most one is in flight, and it is the last
\* one issued; a call is issued only in the step in which the previous one
\* settles without an error.
C3_OrderInv ==
  /\ IsPrefix(calls, CallOrder)
  /\ Cardinality(inFlight) <= 1
  /\ inFlight # {} => (calls # <<>> /\ inFlight = {calls[Len(calls)]})
  /\ inFlight # {} <=> pc \in {"token", "resolver", "policy", "storage"}

C3_OrderStep ==
  (Len(calls') > 1 /\ calls' # calls) =>
    /\ calls' = Append(calls, CallOrder[Len(calls) + 1])
    /\ inFlight = {calls[Len(calls)]}
    /\ inFlight' = {calls'[Len(calls')]}
    /\ error' = <<>>

C3_SequentialCalls == []C3_OrderInv /\ [][C3_OrderStep]_vars

C3_Witness ==
  /\ ~request.dryMode
  /\ calls = CallOrder
  /\ inFlight = {"storage"}

\* C4: once a step has thrown, the call is settled as failed with that
\* error and no result; the calls issued are exactly those up to the step
\* that failed, each once, none is in flight, and nothing of this call
\* happens afterwards (the next step can only be a new call of uploadImage).
C4_FailedInv ==
  error # <<>> =>
    /\ pc = "failed"
    /\ Len(error) = 1
    /\ result = <<>>
    /\ inFlight = {}
    /\ calls \in CallsAtStep(error[1].step)

C4_FailedStep ==
  pc = "failed" =>
    /\ calls' \in {<<>>, SubSeq(CallOrder, 1, 1)}
    /\ fileReads' = 0

C4_FirstFailureAborts == []C4_FailedInv /\ [][C4_FailedStep]_vars

C4_Witness ==
  /\ pc = "failed"
  /\ Len(error) = 1
  /\ error[1].kind = "RepositoryResolutionFailed"
  /\ calls = SubSeq(CallOrder, 1, 2)

\* C5: when the storage endpoint answers the storage POST with a 2xx status
\* and the policy carries an asset id A, the call returns a result with
\* url = "https://github.com/user-attachments/assets/" + A, assetId = A and
\* dryMode = FALSE; and a result with dryMode = FALSE appears only in such a
\* step, after all four calls were issued.
C5_SuccessStep ==
  /\ \A resp \in StorageResponses :
       ( /\ StorageSettles(resp)
         /\ resp.status >= 200 /\ resp.status <= 299
         /\ policy.asset_id.t \in {"string", "number"} ) =>
           /\ pc' = "done"
           /\ Len(result') = 1
           /\ result'[1].url =
                <<"https://github.com/user-attachments/assets/">>
                \o policy.asset_id.v
           /\ result'[1].assetId = policy.asset_id
           /\ result'[1].dryMode = FALSE
  /\ ( /\ result' # <<>>
       /\ ~result'[1].dryMode ) =>
         /\ calls = CallOrder
         /\ pc = "storage"
         /\ \E resp \in StorageResponses :
              /\ StorageSettles(resp)
              /\ resp.status >= 200 /\ resp.status <= 299

C5_SuccessResult == [][C5_SuccessStep]_vars

C5_Witness ==
  /\ pc = "done"
  /\ Len(result) = 1
  /\ ~result[1].dryMode
  /\ result[1].assetId = Str(<<"abc123">>)
  /\ result[1].url =
       <<"https://github.com/user-attachments/assets/", "abc123">>

\* C6: every result returned has, when dryMode = TRUE, no asset id and the
\* placeholder url, and, when dryMode = FALSE, an asset id that is present
\* and the CDN url made from it.
C6_ResultInvariant ==
  \A i \in 1..Len(result) :
    /\ result[i].dryMode =>
         /\ result[i].assetId.t \in {"undefined", "null"}
         /\ Contains(result[i].url, <<"[DRY MODE] Would upload ">>)
    /\ ~result[i].dryMode =>
         /\ result[i].assetId.t \notin {"undefined", "null"}
         /\ result[i].url =
              <<"https://github.com/user-attachments/assets/">>
              \o result[i].assetId.v

\* C7: when the policy endpoint answers 2xx with a JSON body that has no
\* upload_url, the call fails in that step with PolicyRequestFailed at the
\* policy step, the file is not read for upload and no storage POST is
\* issued.
C7_MissingUrlStep ==
  \A resp \in PolicyResponses :
    ( /\ PolicySettles(resp)
      /\ resp.status >= 200 /\ resp.status <= 299
      /\ resp.body.json.valid
      /\ resp.body.json.upload_url.t = "undefined" ) =>
        /\ pc' = "failed"
        /\ Len(error') = 1
        /\ error'[1].kind = "PolicyRequestFailed"
        /\ error'[1].step = "policy"
        /\ fileReads' = 0
        /\ calls' = calls
        /\ storageRequest' = NoStorageRequest

C7_MissingUrlIsPolicyFailure == [][C7_MissingUrlStep]_vars

\* a decimal integer: an optional sign and then digits only
IsInteger(text) ==
  LET body == IF text # <<>> /\ Head(text) \in {"+", "-"}
              THEN Tail(text) ELSE text
  IN  /\ body # <<>>
      /\ \A i \in 1..Len(body) : IsDigit(body[i])

\* C8: when gh api exits with code 0 and prints something that is not an
\* integer, the call fails in that step with RepositoryResolutionFailed and
\* no policy request is issued; every policy request carries a numeric
\* repository_id.
C8_NonNumericStep ==
  /\ \A o \in ResolverOutcomes :
       ( /\ ResolverSettles(o)
         /\ o.event = "close"
         /\ o.code = 0
         /\ ~IsInteger(Trim(o.stdout)) ) =>
           /\ pc' = "failed"
           /\ Len(error') = 1
           /\ error'[1].kind = "RepositoryResolutionFailed"
           /\ calls' = calls
           /\ policyRequest' = NoPolicyRequest
  /\ policyRequest' # NoPolicyRequest => IsInteger(policyRequest'.repository_id)

C8_NonNumericIdIsResolutionFailure == [][C8_NonNumericStep]_vars

\* C9: when the policy endpoint answers with a status outside 200..299, the
\* call fails in that step with PolicyRequestFailed, the message contains
\* the status and the text of the response body, the file is not read and
\* no storage POST is issued.
C9_PolicyStatusStep ==
  \A resp \in PolicyResponses :
    ( /\ PolicySettles(resp)
      /\ ~(resp.status >= 200 /\ resp.status <= 299) ) =>
        /\ pc' = "failed"
        /\ result' = <<>>
        /\ Len(error') = 1
        /\ error'[1].kind = "PolicyRequestFailed"
        /\ Contains(error'[1].message, NatToText(resp.status))
        /\ Contains(error'[1].message, resp.body.text)
        /\ calls' = calls
        /\ calls' = SubSeq(CallOrder, 1, 3)
        /\ fileReads' = 0
        /\ storageRequest' = NoStorageRequest

C9_PolicyNon2xxFails == [][C9_PolicyStatusStep]_vars

C9_Witness ==
  /\ pc = "failed"
  /\ Len(error) = 1
  /\ error[1].kind = "PolicyRequestFailed"
  /\ Contains(error[1].message, <<"3", "0", "0">>)
  /\ Contains(error[1].message, <<"{message:Bad}">>)
  /\ calls = SubSeq(CallOrder, 1, 3)

\* C10: when the storage endpoint answers, the call returns a result
\* exactly when the status is in 200..299; for any other status it fails
\* with UploadFailed, the message contains the status and the text of the
\* response body, and no result is returned.
C10_StorageStatusStep ==
  \A resp \in StorageResponses :
    StorageSettles(resp) =>
      IF resp.status >= 200 /\ resp.status <= 299
      THEN /\ pc' = "done"
           /\ error' = <<>>
           /\ Len(result') = 1
      ELSE /\ pc' = "failed"
           /\ result' = <<>>
           /\ Len(error') = 1
           /\ error'[1].kind = "UploadFailed"
           /\ Contains(error'[1].message, NatToText(resp.status))
           /\ Contains(error'[1].message, resp.text)

C10_StorageSuccessIs2xx == [][C10_StorageStatusStep]_vars

C10_Witness ==
  /\ pc = "failed"
  /\ calls = CallOrder
  /\ Len(error) = 1
  /\ error[1].kind = "UploadFailed"
  /\ Contains(error[1].message, <<"3", "0", "0">>)
  /\ Contains(error[1].message, <<"<Error>AccessDenied</Error>">>)

\* C13: the multipart body of the storage request holds the fields of the
\* policy's form, in the order of the policy and with their values, followed
\* by exactly one file part, which is last and carries the bytes of the
\* file, the computed MIME type and the file name; nothing else.
C13_MultipartBody ==
  storageRequest # NoStorageRequest =>
    LET form == policy.form.v
        n == Len(form)
        parts == storageRequest.parts
    IN  /\ Len(parts) = n + 1
        /\ \A i \in 1..n :
             /\ parts[i].name = form[i][1]
             /\ parts[i].value = form[i][2]
             /\ parts[i].filename = <<>>
        /\ parts[n + 1].name = <<"file">>
        /\ parts[n + 1].value = request.filePath.v
        /\ parts[n + 1].type = getMimeType(request.filePath.v)
        /\ parts[n + 1].filename = basename(request.filePath.v)

\* text occurs in none of the fields of a multipart part
PartFree(part, text) ==
  /\ ~Contains(part.name, text)
  /\ ~Contains(part.filename, text)
  /\ ~Contains(part.type, text)
  /\ (part.name # <<"file">> => ~Contains(part.value, text))

\* C14: the token is sent in the Authorization header of the policy request
\* to https://github.com/upload/policies/assets and in no other field of
\* it; the storage request has no header, and neither its URL nor any part
\* of its body contains the token.
C14_TokenOnlyInPolicyRequest ==
  /\ policyRequest # NoPolicyRequest =>
       /\ policyRequest.url = <<"https://github.com/upload/policies/assets">>
       /\ policyRequest.authorization = <<"token ">> \o token
       /\ ~Contains(policyRequest.name, token)
       /\ ~Contains(policyRequest.size, token)
       /\ ~Contains(policyRequest.content_type, token)
       /\ ~Contains(policyRequest.repository_id, token)
  /\ storageRequest # NoStorageRequest =>
       /\ storageRequest.headers = <<>>
       /\ storageRequest.url = policy.upload_url.v
       /\ ~Contains(storageRequest.url, token)
       /\ \A i \in 1..Len(storageRequest.parts) :
            PartFree(storageRequest.parts[i], token)

C14_Witness ==
  /\ pc = "storage"
  /\ token = <<"gho_B">>
  /\ policyRequest.authorization = <<"token ", "gho_B">>
  /\ storageRequest.url = <<"https://store/y">>
  /\ Len(storageRequest.parts) = 5

\* the error of a settled call when it is a local one, <<>> otherwise
LocalError(e) ==
  IF e # <<>> /\ e[1].kind \in LocalErrorKinds THEN e ELSE <<>>

\* C15: when uploadImage is called again with the same filePath and
\* repository and the other value of dryMode, both calls throw the same
\* local error or neither throws one; the non-dry-run call throws it before
\* any external call; the dry-run call returns a result exactly when there
\* is no local error.
C15_DryRunStep ==
  ( /\ pc \in {"done", "failed"}
    /\ request' # request
    /\ request'.filePath = request.filePath
    /\ request'.repository = request.repository
    /\ request'.dryMode # request.dryMode ) =>
      /\ LocalError(error') = LocalError(error)
      /\ LocalError(error') # <<>> => calls' = <<>>
      /\ request'.dryMode =>
           /\ (Len(result') = 1) <=> (LocalError(error') = <<>>)
           /\ error' = LocalError(error')
      /\ request.dryMode =>
           /\ (Len(result) = 1) <=> (LocalError(error) = <<>>)
           /\ error = LocalError(error)

C15_DryRunValidatesAlike == [][C15_DryRunStep]_vars

C15_Witness ==
  /\ request.dryMode
  /\ pc = "failed"
  /\ Len(error) = 1
  /\ error[1].kind = "InvalidReference"
  /\ request.filePath = Str(<<"a", ".", "p", "n", "g">>)

(***************************************************************************)
(* parseRepository called on its own.                                      *)
(***************************************************************************)
\* longest repository name tried
MaxNameLen == 3

\* longest free-form reference tried
MaxRefLen == 4

NonEmptySeqsUpTo(S, n) == SeqsUpTo(S, n) \ {<<>>}

Hosts ==
  {GITHUB_COM, <<"x", ".", "i", "o">>, <<"a">> \o GITHUB_COM,
   GITHUB_COM \o <<".", "x">>}

Owners == NonEmptySeqsUpTo({"o", "."}, 2)

Names == NonEmptySeqsUpTo({"r", "s", "."}, MaxNameLen)

References ==
  SeqsUpTo({"a", "/", "."}, MaxRefLen)
  \cup {<<"i", "n", "v", "a", "l", "i", "d">>, <<"a", "/", "b", "/", "c">>}

DOT_GIT == <<".", "g", "i", "t">>

\* the four ways to write a repository
ShortForm(owner, name) == owner \o <<"/">> \o name

HttpsForm(host, owner, name) ==
  <<"h", "t", "t", "p", "s", ":", "/", "/">> \o host \o <<"/">> \o owner
  \o <<"/">> \o name

HttpsGitForm(host, owner, name) == HttpsForm(host, owner, name) \o DOT_GIT

SshForm(host, owner, name) ==
  <<"g", "i", "t", "@">> \o host \o <<":">> \o owner \o <<"/">> \o name
  \o DOT_GIT

\* the arguments parseRepository is tried with
ParseInputs ==
  [fn : {"parseForms"}, host : Hosts, owner : Owners, name : Names]
  \cup [fn : {"parseRepository"}, ref : References]

ParseInit ==
  /\ UploadInit
  /\ input \in ParseInputs
  /\ output = NoOutput
  /\ cli = NoCli
  /\ parked = NoParked

\* parseRepository is called with each way of writing owner/name at host
ParseForms ==
  /\ input.fn = "parseForms"
  /\ output = NoOutput
  /\ output' =
       [fn |-> "parseForms",
        short |-> parseRepository(ShortForm(input.owner, input.name)),
        https |->
          parseRepository(HttpsForm(input.host, input.owner, input.name)),
        httpsGit |->
          parseRepository(HttpsGitForm(input.host, input.owner, input.name)),
        ssh |-> parseRepository(SshForm(input.host, input.owner, input.name))]
  /\ UNCHANGED <<uploadVars, input, cli, parked>>

\* parseRepository is called with a reference
ParseReference ==
  /\ input.fn = "parseRepository"
  /\ output = NoOutput
  /\ output' = [fn |-> "parseRepository", parsed |-> parseRepository(input.ref)]
  /\ UNCHANGED <<uploadVars, input, cli, parked>>

ParseNext ==
  \/ ParseForms
  \/ ParseReference

SpecParse == ParseInit /\ [][ParseNext]_vars

\* the pair parseRepository is expected to return
Parsed(owner, name) == [ok |-> TRUE, owner |-> owner, repo |-> name]

\* C16: for every owner and name (non-empty, without "/" or ":") the
\* references owner/name, https://github.com/owner/name,
\* https://github.com/owner/name.git and git@github.com:owner/name.git all
\* parse to {owner, name}.
C16_FourFormsAgree ==
  (output.fn = "parseForms" /\ input.host = GITHUB_COM) =>
    /\ output.short = Parsed(input.owner, input.name)
    /\ output.https = Parsed(input.owner, input.name)
    /\ output.httpsGit = Parsed(input.owner, input.name)
    /\ output.ssh = Parsed(input.owner, input.name)

\* C17 as claimed: for every host, owner and name the references
\* https://host/owner/name, https://host/owner/name.git and
\* git@host:owner/name.git parse to {owner, name}.
C17_AnyHost ==
  output.fn = "parseForms" =>
    /\ output.https = Parsed(input.owner, input.name)
    /\ output.httpsGit = Parsed(input.owner, input.name)
    /\ output.ssh = Parsed(input.owner, input.name)

EndsWith(s, suffix) ==
  /\ Len(suffix) <= Len(s)
  /\ SubSeq(s, Len(s) - Len(suffix) + 1, Len(s)) = suffix

\* the part of a name before its first "."
UpToFirstDot(name) ==
  IF Positions(name, ".") = {} THEN name
  ELSE SubSeq(name, 1, Min(Positions(name, ".")) - 1)

\* C17 as amended: the URL and SSH forms are recognised only where
\* github.com directly precedes the "/" or ":" before the owner.  For a
\* host that ends with github.com and a name that does not begin with ".",
\* the three references parse to the owner and the name up to its first
\* "." (the name itself when it has no "."); in every other case the two
\* https references are rejected and the SSH reference does not parse to
\* {owner, name}.
C17_GitHubHostOnly ==
  output.fn = "parseForms" =>
    IF EndsWith(input.host, GITHUB_COM) /\ UpToFirstDot(input.name) # <<>>
    THEN /\ output.https = Parsed(input.owner, UpToFirstDot(input.name))
         /\ output.httpsGit = Parsed(input.owner, UpToFirstDot(input.name))
         /\ output.ssh = Parsed(input.owner, UpToFirstDot(input.name))
    ELSE /\ ~output.https.ok
         /\ ~output.httpsGit.ok
         /\ output.ssh # Parsed(input.owner, input.name)

C17_Witness ==
  /\ output.fn = "parseForms"
  /\ input.host = <<"x", ".", "i", "o">>
  /\ input.name = <<"r">>
  /\ ~output.https.ok
  /\ ~output.httpsGit.ok

\* C18: parseRepository rejects the empty string, a reference without "/"
\* and a reference of more than two segments that the URL/SSH pattern does
\* not match; when the pattern does not match it accepts only exactly two
\* non-empty segments; it never returns an empty owner or an empty name.
C18_RejectsMalformed ==
  output.fn = "parseRepository" =>
    LET ref == input.ref
        segments == SplitSlash(ref)
        matched == urlMatch(ref).matched
        parsed == output.parsed
    IN  /\ ref = <<>> => ~parsed.ok
        /\ Positions(ref, "/") = {} => ~parsed.ok
        /\ (Len(segments) > 2 /\ ~matched) => ~parsed.ok
        /\ (~matched /\ parsed.ok) =>
             /\ Len(segments) = 2
             /\ segments[1] # <<>>
             /\ segments[2] # <<>>
        /\ parsed.ok => (parsed.owner # <<>> /\ parsed.repo # <<>>)

(***************************************************************************)
(* The extension tables applied to file names.                             *)
(***************************************************************************)
\* longest part of a file name before its extension
MaxStemLen == 2

Stems == SeqsUpTo({"a", "x", ".", "/"}, MaxStemLen)

\* extensions outside the tables
OtherExtensions ==
  {<<".", "e", "x", "e">>, <<".", "j", "s">>, <<".", "h", "t", "m", "l">>,
   <<".", "s", "h">>, <<".", "u", "n", "k", "n", "o", "w", "n">>,
   <<".", "p", "n">>, <<".", "p", "n", "g", "x">>}

Extensions ==
  {ALLOWED_EXTENSIONS[i] : i \in 1..Len(ALLOWED_EXTENSIONS)}
  \cup OtherExtensions

toUpperChar(c) ==
  IF \E u \in DOMAIN UpperToLower : UpperToLower[u] = c
  THEN CHOOSE u \in DOMAIN UpperToLower : UpperToLower[u] = c
  ELSE c

\* the ways an extension is written
Casings == {"lower", "upper", "capital"}

Cased(ext, casing) ==
  [i \in 1..Len(ext) |->
     IF casing = "upper" \/ (casing = "capital" /\ i = 2)
     THEN toUpperChar(ext[i]) ELSE ext[i]]

ExtensionInputs ==
  {[fn |-> "extension", stem |-> st, ext |-> e, casing |-> c,
    fileName |-> st \o Cased(e, c)] :
     st \in Stems, e \in Extensions, c \in Casings}

ExtensionInit ==
  /\ UploadInit
  /\ input \in ExtensionInputs
  /\ output = NoOutput
  /\ cli = NoCli
  /\ parked = NoParked

\* isExtensionAllowed, getMimeType and uploadImage are called with the file
\* name
CheckExtension(dryMode) ==
  /\ input.fn = "extension"
  /\ output = NoOutput
  /\ output' = [fn |-> "extension",
                allowed |-> isExtensionAllowed(input.fileName),
                mimeType |-> getMimeType(input.fileName)]
  /\ uploadImageStart(Str(input.fileName), Str(<<"o", "/", "r">>), dryMode)
  /\ UNCHANGED <<input, cli, parked>>

ExtensionNext == \E dryMode \in BOOLEAN : CheckExtension(dryMode)

SpecExtension == ExtensionInit /\ [][ExtensionNext]_vars

\* the MIME type documented for an allow-listed extension
DocumentedType(ext) ==
  CASE ext = <<".", "g", "i", "f">> -> <<"image/gif">>
    [] ext = <<".", "j", "p", "g">> -> <<"image/jpeg">>
    [] ext = <<".", "j", "p", "e", "g">> -> <<"image/jpeg">>
    [] ext = <<".", "p", "n", "g">> -> <<"image/png">>
    [] ext = <<".", "w", "e", "b", "p">> -> <<"image/webp">>
    [] ext = <<".", "s", "v", "g">> -> <<"image/svg+xml">>
    [] ext = <<".", "m", "p", "4">> -> <<"video/mp4">>
    [] ext = <<".", "m", "o", "v">> -> <<"video/quicktime">>
    [] ext = <<".", "p", "d", "f">> -> <<"application/pdf">>
    [] ext = <<".", "d", "o", "c", "x">> ->
         <<"application/vnd.openxmlformats-officedocument.wordprocessingml.document">>
    [] ext = <<".", "p", "p", "t", "x">> ->
         <<"application/vnd.openxmlformats-officedocument.presentationml.presentation">>
    [] ext = <<".", "x", "l", "s", "x">> ->
         <<"application/vnd.openxmlformats-officedocument.spreadsheetml.sheet">>
    [] ext = <<".", "t", "x", "t">> -> <<"text/plain">>
    [] ext = <<".", "l", "o", "g">> -> <<"text/plain">>
    [] ext = <<".", "z", "i", "p">> -> <<"application/zip">>
    [] ext = <<".", "g", "z">> -> <<"application/gzip">>
    [] OTHER -> <<>>

\* C19: a file name is a stem followed by an extension written in any
\* casing; the extension counts as its extension in the sense of
\* path.extname, so a name that consists of the extension alone (a dotfile,
\* after the last "/") has none.  When the extension is one of the 16
\* allow-listed ones, isExtensionAllowed is true and getMimeType returns the
\* documented type, never application/octet-stream; otherwise
\* isExtensionAllowed is false, getMimeType returns
\* application/octet-stream and uploadImage rejects an existing file of
\* that name with UnsupportedExtension (and an allow-listed one never).
C19_ExtensionTables ==
  output.fn = "extension" =>
    LET dotfile == input.stem = <<>> \/ input.stem[Len(input.stem)] = "/"
        listed == ~dotfile /\ DocumentedType(input.ext) # <<>>
        exists == Stat(input.fileName).kind = "file"
        unsupported == error # <<>> /\ error[1].kind = "UnsupportedExtension"
    IN  /\ listed =>
              /\ output.allowed
              /\ output.mimeType = DocumentedType(input.ext)
              /\ output.mimeType # <<"application/octet-stream">>
              /\ ~unsupported
        /\ ~listed =>
              /\ ~output.allowed
              /\ output.mimeType = <<"application/octet-stream">>
              /\ exists => (unsupported /\ pc = "failed" /\ calls = <<>>)

C19_Witness ==
  /\ output.fn = "extension"
  /\ input.fileName = <<"x", ".", "j", "s">>
  /\ ~output.allowed
  /\ output.mimeType = <<"application/octet-stream">>
  /\ pc = "failed"
  /\ error[1].kind = "UnsupportedExtension"

(***************************************************************************)
(* generateMarkdown                                                        *)
(***************************************************************************)
\* longest alternative text tried
MaxAltLen == 2

\* the altText argument
AltTexts ==
  {Undefined, Null}
  \cup {Str(t) : t \in SeqsUpTo({"A", " ", "]"}, MaxAltLen)}

\* the url and fileName properties of the result argument
MarkdownResults ==
  [url : {ASSET_URL_PREFIX \o <<"7">>, ASSET_URL_PREFIX \o <<"undefined">>},
   fileName : {Undefined} \cup {Str(t) : t \in SeqsUpTo({"f", "."}, 2)}]

\* the value of a || b
OrElse(a, b) == IF Falsy(a) THEN b ELSE a

\* generateMarkdown with the file name before the alternative text
generateMarkdown_FileNameFirst(res, altText) ==
  LET alt == OrElse(OrElse(res.fileName, altText), Str(<<"image">>))
  IN  [threw |-> FALSE,
       text |-> <<"![">> \o JsToString(alt) \o <<"](">> \o res.url \o <<")">>,
       result |-> res]

\* the returned text, and the result object after the call
generateMarkdown(res, altText) ==
  LET alt == OrElse(OrElse(altText, res.fileName), Str(<<"image">>))
  IN  [threw |-> FALSE,
       text |-> <<"![">> \o JsToString(alt) \o <<"](">> \o res.url \o <<")">>,
       result |-> res]

MarkdownInputs ==
  [fn : {"generateMarkdown"}, result : MarkdownResults, altText : AltTexts]

MarkdownInit ==
  /\ UploadInit
  /\ input \in MarkdownInputs
  /\ output = NoOutput
  /\ cli = NoCli
  /\ parked = NoParked

CallGenerateMarkdown ==
  /\ input.fn = "generateMarkdown"
  /\ output = NoOutput
  /\ output' = [fn |-> "generateMarkdown",
                returned |-> generateMarkdown(input.result, input.altText)]
  /\ UNCHANGED <<uploadVars, input, cli, parked>>

MarkdownNext == CallGenerateMarkdown

SpecMarkdown == MarkdownInit /\ [][MarkdownNext]_vars

\* a text that is there: a string that is not empty
Given(x) == x.t = "string" /\ x.v # <<>>

\* C20: generateMarkdown returns "![" alt "](" url ")" where url is
\* result.url and alt is the altText argument when one is given, else
\* result.fileName when present, else "image"; an argument or file name
\* that is undefined, null or the empty string counts as not given.  The
\* call does not throw and leaves the result as it was.
C20_MarkdownAlt ==
  output.fn = "generateMarkdown" =>
    LET alt == IF Given(input.altText) THEN input.altText.v
               ELSE IF Given(input.result.fileName)
               THEN input.result.fileName.v
               ELSE <<"image">>
    IN  /\ ~output.returned.threw
        /\ output.returned.text =
             <<"![">> \o alt \o <<"](">> \o input.result.url \o <<")">>
        /\ output.returned.result = input.result

C20_Witness ==
  /\ output.fn = "generateMarkdown"
  /\ input.altText = Str(<<"A", "]">>)
  /\ input.result.fileName = Str(<<"f", ".">>)
  /\ output.returned.text =
       <<"![", "A", "]", "](">> \o ASSET_URL_PREFIX \o <<"7", ")">>

(***************************************************************************)
(* The command line: parseArgs and main of cli.js.                         *)
(***************************************************************************)
\* longest argument list tried
MaxArgs == 4

A_PNG == <<"a", ".", "p", "n", "g">>

O_R == <<"o", "/", "r">>

\* the words an argument list is made of
ArgWords ==
  {A_PNG, O_R, <<"-", "r">>, <<"-", "h">>, <<"-", "-", "h", "e", "l", "p">>,
   <<"-", "V">>, <<"-", "-", "v", "e", "r", "s", "i", "o", "n">>,
   <<"-", "d">>, <<"-", "a">>, <<"-", "x">>}

ArgLists == SeqsUpTo(ArgWords, MaxArgs)

\* the option a boolean flag sets, "" for another argument
BOOLEAN_FLAGS(arg) ==
  CASE arg \in {<<"-", "h">>, <<"-", "-", "h", "e", "l", "p">>} -> "help"
    [] arg \in {<<"-", "V">>,
                <<"-", "-", "v", "e", "r", "s", "i", "o", "n">>} -> "version"
    [] arg \in {<<"-", "v">>,
                <<"-", "-", "v", "e", "r", "b", "o", "s", "e">>} -> "verbose"
    [] arg \in {<<"-", "d">>, <<"-", "-", "d", "r", "y">>,
                <<"-", "-", "d", "r", "y", "-", "m", "o", "d", "e">>} ->
         "dryMode"
    [] arg \in {<<"-", "m">>,
                <<"-", "-", "m", "a", "r", "k", "d", "o", "w", "n">>} ->
         "markdown"
    [] OTHER -> ""

\* the option a value flag sets, "" for another argument
VALUE_FLAGS(arg) ==
  CASE arg \in {<<"-", "a">>, <<"-", "-", "a", "l", "t">>} -> "altText"
    [] arg \in {<<"-", "r">>,
                <<"-", "-", "r", "e", "p", "o", "s", "i", "t", "o", "r", "y">>,
                <<"-", "-", "r", "e", "p", "o">>} -> "repository"
    [] OTHER -> ""

startsWith(s, c) == Len(s) >= 1 /\ s[1] = c

\* the options before the first argument is read
DefaultOptions ==
  [filePath |-> Null, repository |-> Null, verbose |-> FALSE,
   dryMode |-> FALSE, markdown |-> FALSE, altText |-> Null, help |-> FALSE,
   version |-> FALSE]

\* args[i], undefined beyond the end
ArgAt(args, i) == IF i <= Len(args) THEN Str(args[i]) ELSE Undefined

\* the while loop of parseArgs from position i on
RECURSIVE parseArgsFrom(_, _, _)
parseArgsFrom(args, i, options) ==
  IF i > Len(args) THEN options
  ELSE IF BOOLEAN_FLAGS(args[i]) # ""
  THEN parseArgsFrom(args, i + 1,
                     [options EXCEPT ![BOOLEAN_FLAGS(args[i])] = TRUE])
  ELSE IF VALUE_FLAGS(args[i]) # ""
  THEN parseArgsFrom(args, i + 2,
                     [options EXCEPT ![VALUE_FLAGS(args[i])] =
                                       ArgAt(args, i + 1)])
  ELSE IF ~startsWith(args[i], "-") /\ Falsy(options.filePath)
  THEN parseArgsFrom(args, i + 1, [options EXCEPT !.filePath = Str(args[i])])
  ELSE parseArgsFrom(args, i + 1, options)

parseArgs(args) == parseArgsFrom(args, 1, DefaultOptions)

\* process.exit(code)
Exited(code) == [phase |-> "exited", code |-> code]

\* main after uploadImage has settled, or still waiting for it
AfterUpload(p) ==
  IF p = "done" THEN Exited(0)
  ELSE IF p = "failed" THEN Exited(1)
  ELSE [phase |-> "upload"]

CliInit ==
  /\ UploadInit
  /\ input = NoInput
  /\ output = NoOutput
  /\ cli \in [phase : {"start"}, args : ArgLists]
  /\ parked = NoParked

\* main that tests the required arguments before help and version
main_RequiredFirst ==
  /\ cli.phase = "start"
  /\ LET options == parseArgs(cli.args)
     IN  IF Falsy(options.filePath) \/ Falsy(options.repository)
         THEN cli' = Exited(1) /\ UNCHANGED uploadVars
         ELSE IF options.help \/ options.version
         THEN cli' = Exited(0) /\ UNCHANGED uploadVars
         ELSE /\ uploadImageStart(options.filePath, options.repository,
                                  options.dryMode)
              /\ cli' = AfterUpload(pc')
  /\ UNCHANGED <<input, output, parked>>

\* main up to its await of uploadImage
main ==
  /\ cli.phase = "start"
  /\ LET options == parseArgs(cli.args)
     IN  IF options.help \/ options.version
         THEN cli' = Exited(0) /\ UNCHANGED uploadVars
         ELSE IF Falsy(options.filePath) \/ Falsy(options.repository)
         THEN cli' = Exited(1) /\ UNCHANGED uploadVars
         ELSE /\ uploadImageStart(options.filePath, options.repository,
                                  options.dryMode)
              /\ cli' = AfterUpload(pc')
  /\ UNCHANGED <<input, output, parked>>

\* a step of the awaited uploadImage, and the rest of main when it settles
CliStep(A) ==
  /\ cli.phase = "upload"
  /\ A
  /\ cli' = AfterUpload(pc')
  /\ UNCHANGED <<input, output, parked>>

CliNext ==
  \/ main
  \/ \E o \in TokenOutcomes : CliStep(TokenSettles(o))
  \/ \E o \in ResolverOutcomes : CliStep(ResolverSettles(o))
  \/ \E resp \in PolicyResponses : CliStep(PolicySettles(resp))
  \/ CliStep(PolicyRejects)
  \/ \E resp \in StorageResponses : CliStep(StorageSettles(resp))
  \/ CliStep(StorageRejects)

SpecCli == CliInit /\ [][CliNext]_vars

\* whether args[i] is the value of a -a or -r before it
RECURSIVE IsValueAt(_, _)
IsValueAt(args, i) ==
  /\ i > 1
  /\ ~IsValueAt(args, i - 1)
  /\ args[i - 1] \in {<<"-", "a">>, <<"-", "-", "a", "l", "t">>, <<"-", "r">>,
                      <<"-", "-", "r", "e", "p", "o">>,
                      <<"-", "-", "r", "e", "p", "o", "s", "i", "t", "o", "r",
                        "y">>}

\* the positions where one of the flags is given as an option
GivenAt(args, flags) ==
  {i \in 1..Len(args) : args[i] \in flags /\ ~IsValueAt(args, i)}

HelpOrVersionGiven(args) ==
  GivenAt(args, {<<"-", "h">>, <<"-", "-", "h", "e", "l", "p">>, <<"-", "V">>,
                 <<"-", "-", "v", "e", "r", "s", "i", "o", "n">>}) # {}

\* no argument outside the options names a file
FileMissing(args) ==
  ~\E i \in 1..Len(args) :
      ~IsValueAt(args, i) /\ args[i] # <<>> /\ ~startsWith(args[i], "-")

\* no -r, or the last -r has no value after it
RepositoryMissing(args) ==
  LET at == GivenAt(args, {<<"-", "r">>, <<"-", "-", "r", "e", "p", "o">>,
                           <<"-", "-", "r", "e", "p", "o", "s", "i", "t", "o",
                             "r", "y">>})
  IN  at = {} \/ Max(at) = Len(args) \/ args[Max(at) + 1] = <<>>

\* C11, one step of the process: when it exits, the code is 0 exactly when
\* help or version is given (as an option, not as the value of -a or -r) or
\* uploadImage returned a result, and 1 otherwise; help and version exit
\* with 0 whatever else is or is not given; with help or version, or with
\* the file or the repository missing, uploadImage is not called and
\* nothing is called outside the process.
C11_ExitStep ==
  /\ (cli.phase = "start" /\ HelpOrVersionGiven(cli.args)) =>
       (cli' = Exited(0) /\ UNCHANGED uploadVars)
  /\ ( /\ cli.phase = "start"
       /\ ~HelpOrVersionGiven(cli.args)
       /\ (FileMissing(cli.args) \/ RepositoryMissing(cli.args)) ) =>
       (cli' = Exited(1) /\ UNCHANGED uploadVars)
  /\ ( /\ cli.phase = "start"
       /\ cli'.phase = "exited"
       /\ ~HelpOrVersionGiven(cli.args) ) =>
       (cli'.code = 0 <=> (request' # NoRequest /\ Len(result') = 1))
  /\ (cli.phase = "upload" /\ cli'.phase = "exited") =>
       /\ cli'.code = 0 <=> Len(result') = 1
       /\ cli'.code = 1 <=> Len(error') = 1
  /\ cli'.phase = "exited" => cli'.code \in {0, 1}
  /\ cli'.phase = "upload" => pc' \notin {"idle", "done", "failed"}
  /\ cli.phase = "exited" => UNCHANGED vars

C11_ExitCodes == [][C11_ExitStep]_vars

C11_Witness ==
  /\ cli = Exited(0)
  /\ pc = "done"
  /\ ~request.dryMode
  /\ request.filePath = Str(A_PNG)
  /\ Len(result) = 1
  /\ Len(calls) = 4

(***************************************************************************)
(* Two calls of uploadImage in one process.  One call runs, the other is   *)
(* parked at an await (or has not started, or has settled); the event loop *)
(* may resume the other one at any await.                                  *)
(***************************************************************************)
\* the variables of one call as a record
Call(p, req, l, tok, id, pol, polReq, stoReq, cs, fl, reads, res, err) ==
  [pc |-> p, request |-> req, local |-> l, token |-> tok,
   repositoryId |-> id, policy |-> pol, policyRequest |-> polReq,
   storageRequest |-> stoReq, calls |-> cs, inFlight |-> fl,
   fileReads |-> reads, result |-> res, error |-> err]

\* the call that runs
Running ==
  Call(pc, request, local, token, repositoryId, policy, policyRequest,
       storageRequest, calls, inFlight, fileReads, result, error)

\* a call that has not started
FreshCall ==
  Call("idle", NoRequest, NoLocal, <<>>, NaN, NoPolicy, NoPolicyRequest,
       NoStorageRequest, <<>>, {}, 0, <<>>, <<>>)

\* the parked call: its number and its variables
Parked(id, call) == [used |-> TRUE, id |-> id] @@ call

MultiFiles == {Str(A_PNG), Str(<<"B", ".", "J", "P", "G">>)}

MultiRepositories == {Str(O_R), Str(<<"i", "n", "v", "a", "l", "i", "d">>)}

MultiTokenOutcomes ==
  {o \in TokenOutcomes : o.event = "error" \/ o.code = 0}

MultiResolverOutcomes ==
  {o \in ResolverOutcomes :
     o.event = "error" \/ o.stdout \in {<<"7">>, <<"7", "7">>}}

MultiPolicyResponses ==
  {resp \in PolicyResponses :
     /\ resp.status \in {200, 404}
     /\ resp.statusText = <<>>
     /\ resp.body.json.upload_url # Undefined
     /\ resp.body.json.asset_id # Undefined}

MultiStorageResponses ==
  {resp \in StorageResponses :
     resp.status \in {204, 500} /\ resp.statusText = <<>> /\ resp.text = <<>>}

MultiInit ==
  /\ UploadInit
  /\ input = NoInput
  /\ output = NoOutput
  /\ cli = NoCli
  /\ parked = Parked(2, FreshCall)

\* the running call reaches an await or settles and the other call resumes
Switch ==
  /\ parked' = Parked(3 - parked.id, Running)
  /\ pc' = parked.pc
  /\ request' = parked.request
  /\ local' = parked.local
  /\ token' = parked.token
  /\ repositoryId' = parked.repositoryId
  /\ policy' = parked.policy
  /\ policyRequest' = parked.policyRequest
  /\ storageRequest' = parked.storageRequest
  /\ calls' = parked.calls
  /\ inFlight' = parked.inFlight
  /\ fileReads' = parked.fileReads
  /\ result' = parked.result
  /\ error' = parked.error
  /\ UNCHANGED <<input, output, cli>>

\* a step of the running call
MultiStep(A) == A /\ UNCHANGED otherVars

MultiNext ==
  \/ \E f \in MultiFiles, r \in MultiRepositories, d \in BOOLEAN :
       pc = "idle" /\ MultiStep(uploadImageStart(f, r, d))
  \/ \E o \in MultiTokenOutcomes : MultiStep(TokenSettles(o))
  \/ \E o \in MultiResolverOutcomes : MultiStep(ResolverSettles(o))
  \/ \E resp \in MultiPolicyResponses : MultiStep(PolicySettles(resp))
  \/ MultiStep(PolicyRejects)
  \/ \E resp \in MultiStorageResponses : MultiStep(StorageSettles(resp))
  \/ MultiStep(StorageRejects)
  \/ Switch

SpecMulti == MultiInit /\ [][MultiNext]_vars

\* the call has issued the external call named
Issued(c, name) == \E i \in 1..Len(c.calls) : c.calls[i] = name

\* what a call holds is its own: its policy request carries the token and
\* the repository id it obtained itself, its storage request goes to the
\* URL of its own policy, each value was obtained by a call of its own, and
\* a call that returned a real result issued the four calls itself and
\* returns what its own request and its own policy give
OwnData(c) ==
  /\ c.token # <<>> => Issued(c, "token")
  /\ ~c.repositoryId.nan => Issued(c, "resolver")
  /\ c.policy # NoPolicy => Issued(c, "policy")
  /\ c.policyRequest # NoPolicyRequest =>
       c.policyRequest =
         PolicyRequestOf(c.token, c.repositoryId,
                         basename(c.request.filePath.v),
                         getFileSize(c.request.filePath.v),
                         getMimeType(c.request.filePath.v))
  /\ c.storageRequest # NoStorageRequest =>
       c.storageRequest.url = c.policy.upload_url.v
  /\ (c.pc = "done" /\ ~c.request.dryMode) =>
       /\ c.calls = CallOrder
       /\ c.result[1].url = ASSET_URL_PREFIX \o JsToString(c.policy.asset_id)
       /\ c.result[1].fileName = basename(c.request.filePath.v)
  /\ (c.pc = "done" /\ c.request.dryMode) => c.calls = <<>>

\* the variables of the parked call
ParkedCall == [f \in DOMAIN FreshCall |-> parked[f]]

\* C12, one step of a process with two calls of uploadImage: a step of the
\* running call leaves the parked call as it is; what the running call
\* takes from a response is taken from the response to its own call (the
\* token from its own gh auth token, the repository id from its own gh
\* api, the policy from its own policy request); and after the step both
\* calls hold only their own data.
C12_IsolationStep ==
  /\ parked'.id = parked.id => parked' = parked
  /\ parked'.id # parked.id =>
       (ParkedCall' = Running /\ Running' = ParkedCall)
  /\ \A o \in MultiTokenOutcomes :
       (MultiStep(TokenSettles(o)) /\ pc' = "resolver") =>
         token' = getGitHubToken(o).token
  /\ \A o \in MultiResolverOutcomes :
       (MultiStep(ResolverSettles(o)) /\ pc' = "policy") =>
         repositoryId' = getRepositoryId(local.owner, local.repo, o).id
  /\ \A resp \in MultiPolicyResponses :
       (MultiStep(PolicySettles(resp)) /\ pc' = "storage") =>
         policy' = requestUploadPolicy(resp).policy
  /\ OwnData(Running')
  /\ OwnData(ParkedCall')

C12_NoSharedState == [][C12_IsolationStep]_vars

\* both calls have returned a real result, each with its own token and its
\* own policy
C12_Witness ==
  /\ pc = "done"
  /\ parked.pc = "done"
  /\ ~request.dryMode
  /\ ~parked.request.dryMode
  /\ token # parked.token
  /\ policy # parked.policy
  /\ calls = CallOrder
  /\ parked.calls = CallOrder

(***************************************************************************)
(* The order of the local checks.                                          *)
(***************************************************************************)
\* a reference that is neither a github.com URL or SSH reference nor two
\* non-empty segments
MalformedReference(ref) ==
  /\ ~urlMatch(ref).matched
  /\ ~( /\ Len(SplitSlash(ref)) = 2
        /\ SplitSlash(ref)[1] # <<>>
        /\ SplitSlash(ref)[2] # <<>> )

\* the local checks a request violates, by their rank: 1 filePath missing,
\* 2 repository missing, 3 no such file, 4 extension not allowed,
\* 5 reference malformed
ViolatedChecks(req) ==
  {k \in 1..5 :
     \/ k = 1 /\ Falsy(req.filePath)
     \/ k = 2 /\ Falsy(req.repository)
     \/ k = 3 /\ Stat(req.filePath.v).kind # "file"
     \/ k = 4 /\ DocumentedType(toLowerCase(extname(req.filePath.v))) = <<>>
     \/ k = 5 /\ MalformedReference(req.repository.v)}

\* whether the error is the one the check of that rank raises
ErrorOfRank(e, k) ==
  /\ Len(e) = 1
  /\ e[1].kind = CASE k \in {1, 2} -> "MissingArgument"
                   [] k = 3 -> "FileNotFound"
                   [] k = 4 -> "UnsupportedExtension"
                   [] OTHER -> "InvalidReference"
  /\ k = 1 => e[1].message = <<"filePath is required in options">>
  /\ k = 2 => e[1].message = <<"repository is required in options">>

\* C21: a request that violates more than one local check fails, without
\* any external call, with the error of the violated check that comes
\* first in the order missing filePath, missing repository, FileNotFound,
\* UnsupportedExtension, InvalidReference; InvalidReference is raised
\* only for a request that passes the four checks before it, and an
\* existing allowed file with a reference that has no "/" or more than two
\* segments (and is not a github.com reference) fails with
\* InvalidReference.
C21_CheckPrecedence ==
  pc # "idle" =>
    LET v == ViolatedChecks(request)
        ref == request.repository.v
    IN  /\ Cardinality(v) >= 2 =>
             /\ pc = "failed"
             /\ ErrorOfRank(error, Min(v))
             /\ calls = <<>>
        /\ (error # <<>> /\ error[1].kind = "InvalidReference") => v = {5}
        /\ (v = {5} /\ Len(SplitSlash(ref)) # 2) =>
             (pc = "failed" /\ ErrorOfRank(error, 5) /\ calls = <<>>)

\* a file that does not exist and has a disallowed extension, with a
\* reference that is malformed too
C21_Witness ==
  /\ pc = "failed"
  /\ request.filePath = Str(<<"n", ".", "e", "x", "e">>)
  /\ request.repository = Str(<<"i", "n", "v", "a", "l", "i", "d">>)
  /\ ViolatedChecks(request) = {3, 4, 5}
  /\ ErrorOfRank(error, 3)

====
